---- MODULE Spec2Model ----
(***************************************************************************)
(* Model of the CelebV-HQ preparation scripts.                             *)
(*                                                                         *)
(*   src/is_speaking.py          the scoring run (main): resume from the   *)
(*                               ledger CSV, score every clip, append and  *)
(*                               flush one row per clip.                   *)
(*   src/download_and_process.py prepare_jobs, the sequential download     *)
(*                               loop, and process_clip run by the         *)
(*                               multiprocessing pool.                     *)
(*                                                                         *)
(* A behaviour is a sequence of at most MaxRuns invocations of one of the  *)
(* two scripts over one filesystem.  File names are sequences of           *)
(* characters and paths are sequences of path components, so that          *)
(* Path.stem, sorted(), glob and os.path.join are computed, not assumed.   *)
(*                                                                         *)
(* SpecFresh is the scoring script over a ledger that is absent or empty   *)
(* at first.  SpecGeom calls the helpers of download_and_process.py        *)
(* (secs_to_timestr, expand, to_square, denorm) on their own and in the    *)
(* chain process_clip runs them in.                                        *)
(***************************************************************************)
EXTENDS Integers, Sequences, FiniteSets, TLC

\* ------------------------------------------------------------------ bounds
\* Invocations of a script in one behaviour.
MaxRuns == 2
\* Worker processes of the pool (--n_process).
NumWorkers == 2

\* ------------------------------------------------------- program constants
\* THRESH = 6.0, in thousandths (the ledger prints three decimals).
THRESH == 6000

VARIABLES
    prog,        \* which script the behaviour runs: "score" or "crop"
    run,         \* number of invocations started so far
    lastExit,    \* how the last invocation ended
    prevExit,    \* how the invocation before it ended
    \* ---- is_speaking.py
    clipsDir,    \* file names in CLIPS_DIR
    ledger,      \* OUT_CSV on disk: [exists, rows]
    buf,         \* rows written to csv_file and not yet flushed
    done,        \* the set `done` of main
    clips,       \* the list `clips` of main
    idx,         \* position of the for loop in clips
    spc,         \* position of main
    res,         \* result of net.evaluate for the current clip
    tmpDirs,     \* temporary directories on disk, <<run, idx>>
    evaluated,   \* names net.evaluate was invoked on in this run
    fileAtStart, \* rows of OUT_CSV when this run started
    \* ---- download_and_process.py
    meta,        \* data_dict['clips'] in insertion order: [key, vid]
    rawFs,       \* paths existing under raw_vid_root
    procFs,      \* state of each path under processed_vid_root
    mode,        \* args.mode of this run ("direct": process_clip called alone)
    jobs,        \* the job list of this run
    cpc,         \* position of __main__
    nextJob,     \* next job to hand out (pool) or to visit (download loop)
    wpc,         \* position of each worker in process_clip
    wjob,        \* job index each worker holds
    resultQ,     \* results sent back by the workers, in completion order
    outcome,     \* what process_clip ended with, per job
    yielded,     \* results the for loop of __main__ has consumed
    toolCalls,   \* external tool invocations (ffprobe, ffmpeg), per job
    fetches,     \* yt-dlp invocations of this run, per source path
    taken,       \* times the pool handed out each job of this run
    last,        \* the previous run: [mode, jobs, ok, fs]
    \* ---- download_and_process.py: the helpers called on their own
    call,        \* the call under way: [f, bbox, ratio, height, width, secs]
    gpc,         \* the helper that runs next
    box,         \* the box the last helper returned
    dbox,        \* what denorm returned
    text         \* what secs_to_timestr returned

scoreVars == <<clipsDir, ledger, buf, done, clips, idx, spc, res, tmpDirs,
               evaluated, fileAtStart>>
cropVars == <<meta, rawFs, procFs, mode, jobs, cpc, nextJob, wpc, wjob,
              resultQ, outcome, yielded, toolCalls, fetches, taken, last>>
geomVars == <<call, gpc, box, dbox, text>>
vars == <<prog, run, lastExit, prevExit, scoreVars, cropVars, geomVars>>

\* ------------------------------------------------------------- file names
Ord(c) ==
    CASE c = "." -> 46
      [] c = "4" -> 52
      [] c = "a" -> 97
      [] c = "c" -> 99
      [] c = "i" -> 105
      [] c = "l" -> 108
      [] c = "m" -> 109
      [] c = "p" -> 112
      [] c = "z" -> 122

Mp4Suffix == <<".", "m", "p", "4">>

\* File names a clips directory may hold.
Names ==
    { <<"a">> \o Mp4Suffix,
      Mp4Suffix,
      Mp4Suffix \o Mp4Suffix,
      <<"a", ".", "4">> \o Mp4Suffix,
      <<"a", ".", "m", "p">> }

Min(a, b) == IF a < b THEN a ELSE b

Max(a, b) == IF a > b THEN a ELSE b

\* str.__lt__ on two names (code points, then length).
LexLess(a, b) ==
    \E i \in 1..(Min(Len(a), Len(b)) + 1) :
        /\ \A j \in 1..(i - 1) : a[j] = b[j]
        /\ \/ i > Len(a) /\ i <= Len(b)
           \/ i <= Len(a) /\ i <= Len(b) /\ Ord(a[i]) < Ord(b[i])

RECURSIVE SortedDescending(_)
\* Mutant of Sorted: sorted(S, reverse=True).
SortedDescending(S) ==
    IF S = {} THEN <<>>
    ELSE LET m == CHOOSE x \in S : \A y \in S \ {x} : LexLess(y, x)
         IN  <<m>> \o SortedDescending(S \ {m})

RECURSIVE Sorted(_)
\* sorted(S) for a set of names.
Sorted(S) ==
    IF S = {} THEN <<>>
    ELSE LET m == CHOOSE x \in S : \A y \in S \ {x} : LexLess(x, y)
         IN  <<m>> \o Sorted(S \ {m})

EndsWith(s, suf) ==
    /\ Len(s) >= Len(suf)
    /\ SubSeq(s, Len(s) - Len(suf) + 1, Len(s)) = suf

\* CLIPS_DIR.glob("*.mp4"): pathlib matches dot files too.
Glob(dir) == { n \in dir : EndsWith(n, Mp4Suffix) }

\* str.rfind(".") + 1, 0 when there is no dot.
RFindDot(n) ==
    LET D == { i \in 1..Len(n) : n[i] = "." }
    IN  IF D = {} THEN 0 ELSE CHOOSE i \in D : \A j \in D : j <= i

\* PurePath.stem: the name without its last suffix; a leading dot starts no
\* suffix, nor does a trailing one.
Stem(n) ==
    LET i == RFindDot(n)
    IN  IF 1 < i /\ i < Len(n) THEN SubSeq(n, 1, i - 1) ELSE n

\* ----------------------------------------------------------------- ledger
Header ==
    [clip |-> <<"c", "l", "i", "p">>, median_dist |-> "median_dist",
     is_synced |-> "is_synced", offset |-> "offset"]

\* median distances the model may report, in thousandths
Dists == {THRESH, THRESH + 1}

\* Mutant of Row: is_synced is int(median_dist < THRESH).
RowStrict(stem, d) ==
    [clip |-> stem, median_dist |-> d,
     is_synced |-> IF d < THRESH THEN 1 ELSE 0, offset |-> 0]

\* writer.writerow([stem, f"{median_dist:.3f}", int(median_dist <= THRESH),
\* offset]), the distance in thousandths.
Row(stem, d) ==
    [clip |-> stem, median_dist |-> d,
     is_synced |-> IF d <= THRESH THEN 1 ELSE 0, offset |-> 0]

\* {row["clip"] for row in csv.DictReader(f)}: the first record is the
\* field names, every later record is a row.
ClipColumn(rows) == { rows[i].clip : i \in 2..Len(rows) }

Rows(l) == IF l.exists THEN l.rows ELSE <<>>

\* Ledgers a run may find: none, an empty file, or the header and rows of
\* earlier runs (distinct clips, any of them no longer in the directory).
InitStems == { <<"a">>, Mp4Suffix, <<"z">> }
InitLedgers ==
    { [exists |-> FALSE, rows |-> <<>>], [exists |-> TRUE, rows |-> <<>>] }
    \cup { [exists |-> TRUE,
            rows |-> <<Header>> \o [i \in 1..Len(q) |-> Row(q[i], THRESH)]]
           : q \in { Sorted(S) : S \in SUBSET InitStems } }

\* ------------------------------------------------- is_speaking.py: main()
ScoreIdle == prog = "score" /\ spc = "idle"

\* A run starts: SyncNet is loaded (lines 83-88).
StartScore ==
    /\ ScoreIdle
    /\ run < MaxRuns
    /\ run' = run + 1
    /\ spc' = "resume"
    /\ lastExit' = "running"
    /\ prevExit' = lastExit
    /\ fileAtStart' = Rows(ledger)
    /\ evaluated' = <<>>
    /\ done' = {}
    /\ clips' = <<>>
    /\ idx' = 0
    /\ UNCHANGED <<prog, geomVars, clipsDir, ledger, buf, res, tmpDirs, cropVars>>

\* 2) Prepare / resume CSV: read `done` (lines 91-95).
ReadDone(l) == IF l.exists THEN ClipColumn(l.rows) ELSE {}

ReadLedger ==
    /\ prog = "score" /\ spc = "resume"
    /\ done' = ReadDone(ledger)
    /\ spc' = "open"
    /\ UNCHANGED <<prog, geomVars, prevExit, run, lastExit, clipsDir, ledger, buf, clips, idx, res,
                   tmpDirs, evaluated, fileAtStart, cropVars>>

\* Mutant of OpenFile: the file is opened with "w".
OpenTruncating(l) == [exists |-> TRUE, rows |-> <<>>]

\* OUT_CSV.open("a"): the file is created when absent, its content is kept.
OpenFile(l) == [exists |-> TRUE, rows |-> Rows(l)]

\* open("a") creates the file; the header is written (to the buffer) when
\* the file is empty (lines 97-100).
OpenAppend ==
    /\ prog = "score" /\ spc = "open"
    /\ ledger' = OpenFile(ledger)
    /\ buf' = IF Rows(ledger') = <<>> THEN <<Header>> ELSE <<>>
    /\ spc' = "gather"
    /\ UNCHANGED <<prog, geomVars, prevExit, run, lastExit, clipsDir, done, clips, idx, res,
                   tmpDirs, evaluated, fileAtStart, cropVars>>

\* 3) clips = sorted(CLIPS_DIR.glob("*.mp4")) (lines 103-104).
Gather ==
    /\ prog = "score" /\ spc = "gather"
    /\ clips' = Sorted(Glob(clipsDir))
    /\ idx' = 1
    /\ spc' = "loop"
    /\ UNCHANGED <<prog, geomVars, prevExit, run, lastExit, clipsDir, ledger, buf, done, res,
                   tmpDirs, evaluated, fileAtStart, cropVars>>

\* Mutant of AlreadyDone: the file name, not the stem, is looked up.
AlreadyDoneByName(name, d) == name \in d

\* `if stem in done` (line 108).
AlreadyDone(name, d) == Stem(name) \in d

\* for mp4 in progress: ... continue (lines 106-109).
LoopSkip ==
    /\ prog = "score" /\ spc = "loop"
    /\ idx <= Len(clips)
    /\ AlreadyDone(clips[idx], done)
    /\ idx' = idx + 1
    /\ UNCHANGED <<prog, geomVars, prevExit, run, lastExit, clipsDir, ledger, buf, done, clips, spc,
                   res, tmpDirs, evaluated, fileAtStart, cropVars>>

\* tmp_dir = Path(tempfile.mkdtemp(prefix="sync_")) (lines 106-120).
MkTemp ==
    /\ prog = "score" /\ spc = "loop"
    /\ idx <= Len(clips)
    /\ ~AlreadyDone(clips[idx], done)
    /\ tmpDirs' = tmpDirs \cup {<<run, idx>>}
    /\ spc' = "eval"
    /\ UNCHANGED <<prog, geomVars, prevExit, run, lastExit, clipsDir, ledger, buf, done, clips, idx,
                   res, evaluated, fileAtStart, cropVars>>

\* net.evaluate returns (lines 122-123).
Evaluate ==
    /\ prog = "score" /\ spc = "eval"
    /\ evaluated' = Append(evaluated, clips[idx])
    /\ \E d \in Dists : res' = d
    /\ spc' = "write"
    /\ UNCHANGED <<prog, geomVars, prevExit, run, lastExit, clipsDir, ledger, buf, done, clips, idx,
                   tmpDirs, fileAtStart, cropVars>>

\* What the interpreter does with csv_file when main() is left by an
\* exception: the file object is closed, so its buffer reaches the disk.
ExitByException(l, b) == [exists |-> TRUE, rows |-> Rows(l) \o b]

\* Mutant of OnInferenceError: the exception is caught and the loop goes on.
OnInferenceErrorSkip == "skip"

\* What main() does with an exception of net.evaluate: nothing catches it,
\* so it leaves main().
OnInferenceError == "exit"

\* net.evaluate raises: main() is left at line 123; nothing after it runs.
EvaluateFails ==
    /\ prog = "score" /\ spc = "eval"
    /\ evaluated' = Append(evaluated, clips[idx])
    /\ lastExit' = "failed"
    /\ IF OnInferenceError = "exit"
       THEN /\ ledger' = ExitByException(ledger, buf)
            /\ buf' = <<>>
            /\ spc' = "idle"
       ELSE /\ spc' = "rmtree"
            /\ UNCHANGED <<ledger, buf>>
    /\ UNCHANGED <<prog, geomVars, prevExit, run, clipsDir, done, clips, idx, res, tmpDirs,
                   fileAtStart, cropVars>>

\* writer.writerow([stem, median_dist, is_synced, offset]) (lines 125-126).
WriteRow ==
    /\ prog = "score" /\ spc = "write"
    /\ buf' = Append(buf, Row(Stem(clips[idx]), res))
    /\ spc' = "flush"
    /\ UNCHANGED <<prog, geomVars, prevExit, run, lastExit, clipsDir, ledger, done, clips, idx, res,
                   tmpDirs, evaluated, fileAtStart, cropVars>>

\* Mutant of FlushFile: the flush is left out, the rows stay buffered.
FlushNothing(l, b) == [ledger |-> l, buf |-> b]

\* csv_file.flush(): the buffered rows reach the disk.
FlushFile(l, b) ==
    [ledger |-> [exists |-> TRUE, rows |-> Rows(l) \o b], buf |-> <<>>]

\* csv_file.flush() (line 127).
Flush ==
    /\ prog = "score" /\ spc = "flush"
    /\ ledger' = FlushFile(ledger, buf).ledger
    /\ buf' = FlushFile(ledger, buf).buf
    /\ spc' = "rmtree"
    /\ UNCHANGED <<prog, geomVars, prevExit, run, lastExit, clipsDir, done, clips, idx, res,
                   tmpDirs, evaluated, fileAtStart, cropVars>>

\* shutil.rmtree(tmp_dir, ignore_errors=True) (line 130), then the next clip.
RmTree ==
    /\ prog = "score" /\ spc = "rmtree"
    /\ tmpDirs' = tmpDirs \ {<<run, idx>>}
    /\ idx' = idx + 1
    /\ res' = 0
    /\ spc' = "loop"
    /\ UNCHANGED <<prog, geomVars, prevExit, run, lastExit, clipsDir, ledger, buf, done, clips,
                   evaluated, fileAtStart, cropVars>>

\* csv_file.close() after the loop (lines 132-133).
Close ==
    /\ prog = "score" /\ spc = "loop"
    /\ idx > Len(clips)
    /\ ledger' = [exists |-> TRUE, rows |-> Rows(ledger) \o buf]
    /\ buf' = <<>>
    /\ spc' = "idle"
    /\ lastExit' = "finished"
    /\ UNCHANGED <<prog, geomVars, prevExit, run, clipsDir, done, clips, idx, res, tmpDirs,
                   evaluated, fileAtStart, cropVars>>

\* The process is killed at any point of main(): what was not flushed is
\* lost, what is on disk stays.
Crash ==
    /\ prog = "score" /\ spc # "idle"
    /\ buf' = <<>>
    /\ spc' = "idle"
    /\ lastExit' = "crashed"
    /\ UNCHANGED <<prog, geomVars, prevExit, run, clipsDir, ledger, done, clips, idx, res, tmpDirs,
                   evaluated, fileAtStart, cropVars>>

\* ------------------------------------------ download_and_process.py: paths
\* A path is the sequence of its components, "/" first when it is absolute;
\* the extension added to a name is its last component.
RawRoot == <<"/", "raw">>
ProcRoot == <<"/", "processed">>

\* os.path.join(root, p): an absolute p replaces root.
Join(root, p) == IF p # <<>> /\ p[1] = "/" THEN p ELSE root \o p

\* key + ".mp4", vid_id + ".mp4"
AddMp4(name) == Append(name, ".mp4")

\* Clip ids of the metadata: two plain names, and one that is an absolute
\* path into the processed directory.
KeyOrder == << <<"a">>, ProcRoot \o <<"a">>, <<"b">> >>
Keys == { KeyOrder[i] : i \in 1..Len(KeyOrder) }
Vids == { <<"v1">>, <<"v2">> }

RawPath(vid) == Join(RawRoot, AddMp4(vid))
SavePath(key) == Join(ProcRoot, AddMp4(key))

RawPaths == { RawPath(v) : v \in Vids }
DestPaths == { SavePath(k) : k \in Keys }

RECURSIVE Filter(_, _)
Filter(seq, S) ==
    IF seq = <<>> THEN <<>>
    ELSE (IF Head(seq).key \in S THEN <<Head(seq)>> ELSE <<>>)
         \o Filter(Tail(seq), S)

\* data_dict['clips']: a dict, so the keys are distinct; in file order.
MetaChoices ==
    { Filter([i \in 1..Len(KeyOrder) |-> [key |-> KeyOrder[i], vid |-> f[i]]], S) :
        S \in (SUBSET Keys) \ {{}},
        f \in { g \in [1..Len(KeyOrder) -> Vids] : g[1] = <<"v1">> /\ g[2] = <<"v1">> } }

Job(clip) == [raw |-> RawPath(clip.vid), save |-> SavePath(clip.key)]

\* Mutant of Wanted: download mode forgets the `not`.
WantedWhenPresent(clip, fs, m) == RawPath(clip.vid) \in fs

\* The condition under which prepare_jobs appends the clip's job.
Wanted(clip, fs, m) ==
    \/ m = "preprocess" /\ RawPath(clip.vid) \in fs
    \/ m = "download" /\ RawPath(clip.vid) \notin fs

RECURSIVE prepare_jobs(_, _, _)
\* prepare_jobs(data_dict, raw_vid_root, processed_vid_root, mode)
prepare_jobs(data, fs, m) ==
    IF data = <<>> THEN <<>>
    ELSE (IF Wanted(Head(data), fs, m) THEN <<Job(Head(data))>> ELSE <<>>)
         \o prepare_jobs(Tail(data), fs, m)

\* os.path.exists(save_path)
Exists(fs, path) == fs[path] # "absent"

Workers == 1..NumWorkers

\* ---------------------------------------- download_and_process.py: __main__
BeginRun(m, js) ==
    /\ prog = "crop" /\ cpc = "idle"
    /\ run < MaxRuns
    /\ run' = run + 1
    /\ lastExit' = "running"
    /\ prevExit' = lastExit
    /\ mode' = m
    /\ jobs' = js
    /\ nextJob' = 1
    /\ outcome' = [i \in 1..Len(js) |-> "none"]
    /\ toolCalls' = [i \in 1..Len(js) |-> 0]
    /\ fetches' = [r \in RawPaths |-> 0]
    /\ taken' = [i \in 1..Len(js) |-> 0]
    /\ resultQ' = <<>>
    /\ yielded' = 0
    /\ wpc' = [w \in Workers |-> "idle"]
    /\ wjob' = [w \in Workers |-> 0]
    /\ cpc' = IF m = "download" THEN "dl" ELSE "pool"
    /\ UNCHANGED <<prog, geomVars, scoreVars, meta, rawFs, procFs, last>>

\* python download_and_process.py --mode download (lines 194-197)
StartDownload == BeginRun("download", prepare_jobs(meta, rawFs, "download"))

\* python download_and_process.py --mode preprocess (lines 194-203)
StartPreprocess == BeginRun("preprocess", prepare_jobs(meta, rawFs, "preprocess"))

\* process_clip called on one job that no job list produced.
StartDirect ==
    \E r \in RawPaths :
        BeginRun("direct", <<[raw |-> r, save |-> SavePath(KeyOrder[1])]>>)

EndRun(exit) ==
    /\ cpc' = "idle"
    /\ lastExit' = exit
    /\ last' = IF mode = "preprocess"
               THEN [mode |-> mode, jobs |-> jobs, ok |-> exit = "finished",
                     fs |-> procFs]
               ELSE [mode |-> mode, jobs |-> <<>>, ok |-> FALSE, fs |-> procFs]

\* for raw_vid_path, _, _, _ in jobs: the file is there by now (line 199).
DlSkip ==
    /\ prog = "crop" /\ cpc = "dl"
    /\ nextJob <= Len(jobs)
    /\ jobs[nextJob].raw \in rawFs
    /\ nextJob' = nextJob + 1
    /\ UNCHANGED <<prog, geomVars, prevExit, run, lastExit, scoreVars, meta, rawFs, procFs, mode, jobs,
                   cpc, wpc, wjob, resultQ, outcome, yielded, toolCalls, fetches, taken, last>>

\* download(): yt-dlp exits 0 and the file is written (lines 19-34).
FetchOk ==
    /\ prog = "crop" /\ cpc = "dl"
    /\ nextJob <= Len(jobs)
    /\ jobs[nextJob].raw \notin rawFs
    /\ rawFs' = rawFs \cup {jobs[nextJob].raw}
    /\ fetches' = [fetches EXCEPT ![jobs[nextJob].raw] = @ + 1]
    /\ nextJob' = nextJob + 1
    /\ UNCHANGED <<prog, geomVars, prevExit, run, lastExit, scoreVars, meta, procFs, mode, jobs,
                   cpc, wpc, wjob, resultQ, outcome, yielded, toolCalls, taken, last>>

\* download(): yt-dlp exits non-zero, "video not found" (lines 35-36).
FetchFails ==
    /\ prog = "crop" /\ cpc = "dl"
    /\ nextJob <= Len(jobs)
    /\ jobs[nextJob].raw \notin rawFs
    /\ fetches' = [fetches EXCEPT ![jobs[nextJob].raw] = @ + 1]
    /\ nextJob' = nextJob + 1
    /\ UNCHANGED <<prog, geomVars, prevExit, run, lastExit, scoreVars, meta, rawFs, procFs, mode, jobs,
                   cpc, wpc, wjob, resultQ, outcome, yielded, toolCalls, taken, last>>

\* The download loop is over.
DlFinish ==
    /\ prog = "crop" /\ cpc = "dl"
    /\ nextJob > Len(jobs)
    /\ EndRun("finished")
    /\ UNCHANGED <<prog, geomVars, prevExit, run, scoreVars, meta, rawFs, procFs, mode, jobs, nextJob,
                   wpc, wjob, resultQ, outcome, yielded, toolCalls, fetches, taken>>

\* Mutant of NextTask: the task just handed out stays the next one.
SameTask(n) == n

\* imap_unordered takes each element of the jobs iterable in turn.
NextTask(n) == n + 1

\* pool.imap_unordered hands the next job to a free worker (line 204).
Dispatch(w) ==
    /\ prog = "crop" /\ cpc = "pool"
    /\ wpc[w] = "idle"
    /\ nextJob <= Len(jobs)
    /\ wjob' = [wjob EXCEPT ![w] = nextJob]
    /\ wpc' = [wpc EXCEPT ![w] = "check"]
    /\ taken' = [taken EXCEPT ![nextJob] = @ + 1]
    /\ nextJob' = NextTask(nextJob)
    /\ UNCHANGED <<prog, geomVars, prevExit, run, lastExit, scoreVars, meta, rawFs, procFs, mode, jobs,
                   cpc, resultQ, outcome, yielded, toolCalls, fetches, last>>

\* process_clip returns or raises: the worker sends the result back.
Return(w, what) ==
    /\ outcome' = [outcome EXCEPT ![wjob[w]] = what]
    /\ resultQ' = Append(resultQ, [job |-> wjob[w], outcome |-> what])
    /\ wpc' = [wpc EXCEPT ![w] = "idle"]

\* Mutant of SkipIfDone: the source path is tested instead of save_path.
SkipIfSourceMissing(w) == jobs[wjob[w]].raw \notin rawFs

\* `if os.path.exists(save_path)` (line 108)
SkipIfDone(w) == Exists(procFs, jobs[wjob[w]].save)

\* 0) Skip if work already done (lines 105-109).
ClipSkipped(w) ==
    /\ prog = "crop" /\ wpc[w] = "check"
    /\ SkipIfDone(w)
    /\ Return(w, "SKIPPED")
    /\ UNCHANGED <<prog, geomVars, prevExit, run, lastExit, scoreVars, meta, rawFs, procFs, mode, jobs,
                   cpc, nextJob, wjob, yielded, toolCalls, fetches, taken, last>>

\* The file is not there: 1) _get_dimensions, ffprobe reads the source
\* (lines 108-112, 66-87).
Probe(w) ==
    /\ prog = "crop" /\ wpc[w] = "check"
    /\ ~SkipIfDone(w)
    /\ jobs[wjob[w]].raw \in rawFs
    /\ toolCalls' = [toolCalls EXCEPT ![wjob[w]] = @ + 1]
    /\ wpc' = [wpc EXCEPT ![w] = "ffmpeg"]
    /\ UNCHANGED <<prog, geomVars, prevExit, run, lastExit, scoreVars, meta, rawFs, procFs, mode, jobs,
                   cpc, nextJob, wjob, resultQ, outcome, yielded, fetches, taken, last>>

\* ffprobe exits non-zero (no file, no video stream): check=True raises.
ProbeFails(w) ==
    /\ prog = "crop" /\ wpc[w] = "check"
    /\ ~SkipIfDone(w)
    /\ toolCalls' = [toolCalls EXCEPT ![wjob[w]] = @ + 1]
    /\ Return(w, "FAILED")
    /\ UNCHANGED <<prog, geomVars, prevExit, run, lastExit, scoreVars, meta, rawFs, procFs, mode, jobs,
                   cpc, nextJob, wjob, yielded, fetches, taken, last>>

\* 4) ffmpeg -y starts and opens save_path for writing (lines 115-144).
FfmpegOpens(w) ==
    /\ prog = "crop" /\ wpc[w] = "ffmpeg"
    /\ toolCalls' = [toolCalls EXCEPT ![wjob[w]] = @ + 1]
    /\ procFs' = [procFs EXCEPT ![jobs[wjob[w]].save] = "partial"]
    /\ wpc' = [wpc EXCEPT ![w] = "encoding"]
    /\ UNCHANGED <<prog, geomVars, prevExit, run, lastExit, scoreVars, meta, rawFs, mode, jobs,
                   cpc, nextJob, wjob, resultQ, outcome, yielded, fetches, taken, last>>

\* ffmpeg rejects its arguments before it opens the output: check=True raises.
FfmpegRefuses(w) ==
    /\ prog = "crop" /\ wpc[w] = "ffmpeg"
    /\ toolCalls' = [toolCalls EXCEPT ![wjob[w]] = @ + 1]
    /\ Return(w, "FAILED")
    /\ UNCHANGED <<prog, geomVars, prevExit, run, lastExit, scoreVars, meta, rawFs, procFs, mode, jobs,
                   cpc, nextJob, wjob, yielded, fetches, taken, last>>

\* What process_clip leaves at save_path when ffmpeg exits non-zero after it
\* opened the output: nothing is removed (lines 137-146).
AfterFailedTranscode(fs, path) == fs

\* Mutant of AfterTranscode: the clip is written somewhere else.
TranscodeElsewhere(fs, path) == [fs EXCEPT ![path] = "absent"]

\* What is at save_path when ffmpeg has exited 0: the whole clip.
AfterTranscode(fs, path) == [fs EXCEPT ![path] = "complete"]

\* ffmpeg exits 0: return "DONE" (line 146).
FfmpegDone(w) ==
    /\ prog = "crop" /\ wpc[w] = "encoding"
    /\ procFs' = AfterTranscode(procFs, jobs[wjob[w]].save)
    /\ Return(w, "DONE")
    /\ UNCHANGED <<prog, geomVars, prevExit, run, lastExit, scoreVars, meta, rawFs, mode, jobs,
                   cpc, nextJob, wjob, yielded, toolCalls, fetches, taken, last>>

\* ffmpeg exits non-zero while encoding: check=True raises.
FfmpegFails(w) ==
    /\ prog = "crop" /\ wpc[w] = "encoding"
    /\ procFs' = AfterFailedTranscode(procFs, jobs[wjob[w]].save)
    /\ Return(w, "FAILED")
    /\ UNCHANGED <<prog, geomVars, prevExit, run, lastExit, scoreVars, meta, rawFs, mode, jobs,
                   cpc, nextJob, wjob, yielded, toolCalls, fetches, taken, last>>

\* for result in pool.imap_unordered(...): pass (lines 204-205).
Yield ==
    /\ prog = "crop" /\ cpc = "pool"
    /\ resultQ # <<>>
    /\ Head(resultQ).outcome # "FAILED"
    /\ resultQ' = Tail(resultQ)
    /\ yielded' = yielded + 1
    /\ UNCHANGED <<prog, geomVars, prevExit, run, lastExit, scoreVars, meta, rawFs, procFs, mode, jobs,
                   cpc, nextJob, wpc, wjob, outcome, toolCalls, fetches, taken, last>>

\* What the for loop does with the exception a worker sent back: it is
\* raised out of the loop, and leaving `with Pool` terminates the workers.
OnWorkerError == "terminate"

\* The next result is an exception (lines 203-205).
Raise ==
    /\ prog = "crop" /\ cpc = "pool"
    /\ resultQ # <<>>
    /\ Head(resultQ).outcome = "FAILED"
    /\ resultQ' = Tail(resultQ)
    /\ IF OnWorkerError = "terminate"
       THEN /\ wpc' = [w \in Workers |-> "idle"]
            /\ wjob' = [w \in Workers |-> 0]
            /\ EndRun("aborted")
            /\ yielded' = yielded
       ELSE /\ yielded' = yielded + 1
            /\ UNCHANGED <<wpc, wjob, cpc, lastExit, last>>
    /\ UNCHANGED <<prog, geomVars, prevExit, run, scoreVars, meta, rawFs, procFs, mode, jobs,
                   nextJob, outcome, toolCalls, fetches, taken>>

\* Every result was consumed: the pool is closed (line 203).
PoolFinish ==
    /\ prog = "crop" /\ cpc = "pool"
    /\ yielded = Len(jobs)
    /\ EndRun("finished")
    /\ UNCHANGED <<prog, geomVars, prevExit, run, scoreVars, meta, rawFs, procFs, mode, jobs, nextJob,
                   wpc, wjob, resultQ, outcome, yielded, toolCalls, fetches, taken>>

\* ------------------------------------- download_and_process.py: helpers
\* Relative coordinates are counted in hundredths: Grid stands for 1.0.
Grid == 100

\* The ratio process_clip passes to expand, 0.02 (line 116).
ExpandRatio == 2

\* Largest pixel coordinate of the boxes to_square is called on by itself.
MaxPix == 4

\* Seconds are counted in eighths, which floating point represents exactly,
\* as it does every value secs_to_timestr computes from them.
PerSec == 8

\* Mutant of expand: the sides are moved and not clamped.
expand_unclamped(bbox, ratio) ==
    <<bbox[1] - ratio, bbox[2] + ratio, bbox[3] - ratio, bbox[4] + ratio>>

\* expand (lines 46-49)
expand(bbox, ratio) ==
    <<Max(bbox[1] - ratio, 0), Min(bbox[2] + ratio, Grid),
      Max(bbox[3] - ratio, 0), Min(bbox[4] + ratio, Grid)>>

\* int(x * n) for a relative x and a frame dimension n. The product of two
\* floats that is a whole number in exact arithmetic may come out just below
\* it (0.29 * 100 is 28.999999999999996), and int() truncates; 0 and 1.0 are
\* exact.
IntOf(x, n) ==
    LET p == x * n
    IN  IF p % Grid = 0 /\ 0 < x /\ x < Grid
        THEN {p \div Grid, (p \div Grid) - 1}
        ELSE {p \div Grid}

\* Mutant of denorm: height and width change places.
denorm_swapped(bbox, height, width) ==
    { <<t, b, l, r>> : t \in IntOf(bbox[1], width), b \in IntOf(bbox[2], width),
                       l \in IntOf(bbox[3], height), r \in IntOf(bbox[4], height) }

\* denorm (lines 58-61): the boxes it may return.
denorm(bbox, height, width) ==
    { <<t, b, l, r>> : t \in IntOf(bbox[1], height), b \in IntOf(bbox[2], height),
                       l \in IntOf(bbox[3], width), r \in IntOf(bbox[4], width) }

\* Mutant of to_square: the side is the longer span.
to_square_max(bbox) ==
    LET h == bbox[2] - bbox[1]
        w == bbox[4] - bbox[3]
    IN  <<bbox[1] + bbox[2] - Max(h, w), bbox[1] + bbox[2] + Max(h, w),
          bbox[3] + bbox[4] - Max(h, w), bbox[3] + bbox[4] + Max(h, w)>>

\* to_square (lines 51-56) on whole pixels. The result is in half pixels,
\* since c, c_h and c_w are halves: twice (c_h - c, c_h + c, c_w - c, c_w + c).
to_square(bbox) ==
    LET h == bbox[2] - bbox[1]
        w == bbox[4] - bbox[3]
        c2 == Min(h, w)
        c_h2 == bbox[1] + bbox[2]
        c_w2 == bbox[3] + bbox[4]
    IN  <<c_h2 - c2, c_h2 + c2, c_w2 - c2, c_w2 + c2>>

\* str(d) for one decimal digit.
DigitChar(d) ==
    CASE d = 0 -> "0" [] d = 1 -> "1" [] d = 2 -> "2" [] d = 3 -> "3"
      [] d = 4 -> "4" [] d = 5 -> "5" [] d = 6 -> "6" [] d = 7 -> "7"
      [] d = 8 -> "8" [] d = 9 -> "9"

RECURSIVE Digits(_)
\* str(n) for n >= 0.
Digits(n) ==
    IF n < 10 THEN <<DigitChar(n)>>
    ELSE Digits(n \div 10) \o <<DigitChar(n % 10)>>

\* "{:02d}".format(n): zeros on the left up to two characters, never fewer
\* characters than the number has.
Format02d(n) == IF n < 10 THEN <<"0">> \o Digits(n) ELSE Digits(n)

\* Mutant of secs_to_timestr: the hundredths are rounded, not truncated.
secs_to_timestr_rounded(secs) ==
    LET hrs == secs \div (3600 * PerSec)
        mins == (secs % (3600 * PerSec)) \div (60 * PerSec)
        s == secs % (60 * PerSec)
        msec2 == ((s - (s \div PerSec) * PerSec) * 200) \div PerSec
    IN  Format02d(hrs) \o <<":">> \o Format02d(mins) \o <<":">>
            \o Format02d(s \div PerSec) \o <<".">> \o Format02d((msec2 + 1) \div 2)

\* secs_to_timestr (lines 39-44), secs in eighths of a second.
secs_to_timestr(secs) ==
    LET hrs == secs \div (3600 * PerSec)
        mins == (secs % (3600 * PerSec)) \div (60 * PerSec)
        s == secs % (60 * PerSec)
        msec100 == (s - (s \div PerSec) * PerSec) * 100
    IN  Format02d(hrs) \o <<":">> \o Format02d(mins) \o <<":">>
            \o Format02d(s \div PerSec) \o <<".">> \o Format02d(msec100 \div PerSec)

\* No helper is called.
NoCall == [f |-> "none", bbox |-> <<>>, ratio |-> 0, height |-> 0, width |-> 0,
           secs |-> 0]

\* Relative coordinates, ratios, frame sizes and times the helpers are
\* called with.
Coords == {0, 1, 50, 99, Grid}
Ratios == {0, ExpandRatio, 60, 150}
Dims == {1, 2, 7, 50, 100}
Secs == {0, 1, 479, 480, 28799, 29292, 2879999, 2880000, 2880001, 28800000}

\* Boxes with top <= bottom and left <= right over a set of coordinates.
Boxes(C) ==
    { <<t, b, l, r>> : t \in C, b \in C, l \in C, r \in C }

Ordered(bbox) == bbox[1] <= bbox[2] /\ bbox[3] <= bbox[4]

StrictlyOrdered(bbox) == bbox[1] < bbox[2] /\ bbox[3] < bbox[4]

Calls ==
    { [NoCall EXCEPT !.f = "expand", !.bbox = b, !.ratio = r] :
        b \in Boxes(Coords), r \in Ratios }
    \cup { [NoCall EXCEPT !.f = "to_square", !.bbox = b] :
             b \in { x \in Boxes(0..MaxPix) : Ordered(x) } }
    \cup { [NoCall EXCEPT !.f = "secs_to_timestr", !.secs = t] : t \in Secs }
    \cup { [NoCall EXCEPT !.f = "process_clip", !.bbox = b, !.ratio = ExpandRatio,
                          !.height = h, !.width = w] :
             b \in { x \in Boxes(Coords) : StrictlyOrdered(x) },
             h \in Dims, w \in Dims }

\* The first helper of a call.
Entry(c) == IF c.f = "process_clip" THEN "expand" ELSE c.f

Expand ==
    /\ prog = "geom" /\ gpc = "expand"
    /\ box' = expand(call.bbox, call.ratio)
    /\ gpc' = IF call.f = "process_clip" THEN "denorm" ELSE "return"
    /\ UNCHANGED <<prog, run, lastExit, prevExit, scoreVars, cropVars, call, dbox, text>>

Denorm ==
    /\ prog = "geom" /\ gpc = "denorm"
    /\ dbox' \in denorm(box, call.height, call.width)
    /\ gpc' = "to_square"
    /\ UNCHANGED <<prog, run, lastExit, prevExit, scoreVars, cropVars, call, box, text>>

ToSquare ==
    /\ prog = "geom" /\ gpc = "to_square"
    /\ box' = to_square(IF call.f = "process_clip" THEN dbox ELSE call.bbox)
    /\ gpc' = "return"
    /\ UNCHANGED <<prog, run, lastExit, prevExit, scoreVars, cropVars, call, dbox, text>>

SecsToTimestr ==
    /\ prog = "geom" /\ gpc = "secs_to_timestr"
    /\ text' = secs_to_timestr(call.secs)
    /\ gpc' = "return"
    /\ UNCHANGED <<prog, run, lastExit, prevExit, scoreVars, cropVars, call, box, dbox>>

\* ---------------------------------------------------------- specification
\* No invocation has started.
InitProgram ==
    /\ run = 0
    /\ lastExit = "none"
    /\ prevExit = "none"
    /\ IF prog = "score"
       THEN /\ clipsDir \in SUBSET Names
            /\ ledger \in InitLedgers
       ELSE /\ clipsDir = {}
            /\ ledger = [exists |-> FALSE, rows |-> <<>>]
    /\ buf = <<>>
    /\ done = {}
    /\ clips = <<>>
    /\ idx = 0
    /\ spc = "idle"
    /\ res = 0
    /\ tmpDirs = {}
    /\ evaluated = <<>>
    /\ fileAtStart = <<>>
    /\ IF prog = "crop"
       THEN /\ meta \in MetaChoices
            /\ rawFs \in SUBSET RawPaths
            /\ procFs \in { [d \in DestPaths |-> x] : x \in {"absent", "complete"} }
       ELSE /\ meta = <<>>
            /\ rawFs = {}
            /\ procFs = [d \in DestPaths |-> "absent"]
    /\ mode = "none"
    /\ jobs = <<>>
    /\ cpc = "idle"
    /\ nextJob = 1
    /\ wpc = [w \in Workers |-> "idle"]
    /\ wjob = [w \in Workers |-> 0]
    /\ resultQ = <<>>
    /\ outcome = <<>>
    /\ yielded = 0
    /\ toolCalls = <<>>
    /\ fetches = [r \in RawPaths |-> 0]
    /\ taken = <<>>
    /\ last = [mode |-> "none", jobs |-> <<>>, ok |-> FALSE, fs |-> procFs]

Init ==
    /\ prog \in {"score", "crop"}
    /\ InitProgram
    /\ call = NoCall
    /\ gpc = "none"
    /\ box = <<>>
    /\ dbox = <<>>
    /\ text = <<>>

Next ==
    \/ StartScore
    \/ ReadLedger
    \/ OpenAppend
    \/ Gather
    \/ LoopSkip
    \/ MkTemp
    \/ Evaluate
    \/ EvaluateFails
    \/ WriteRow
    \/ Flush
    \/ RmTree
    \/ Close
    \/ Crash
    \/ StartDownload
    \/ StartPreprocess
    \/ StartDirect
    \/ DlSkip
    \/ FetchOk
    \/ FetchFails
    \/ DlFinish
    \/ \E w \in Workers : Dispatch(w)
    \/ \E w \in Workers : ClipSkipped(w)
    \/ \E w \in Workers : Probe(w)
    \/ \E w \in Workers : ProbeFails(w)
    \/ \E w \in Workers : FfmpegOpens(w)
    \/ \E w \in Workers : FfmpegRefuses(w)
    \/ \E w \in Workers : FfmpegDone(w)
    \/ \E w \in Workers : FfmpegFails(w)
    \/ Yield
    \/ Raise
    \/ PoolFinish

Spec == Init /\ [][Next]_vars

\* The scoring script alone, over a ledger that is absent or empty at first.
InitFresh == Init /\ prog = "score" /\ Rows(ledger) = <<>>

NextScore ==
    \/ StartScore
    \/ ReadLedger
    \/ OpenAppend
    \/ Gather
    \/ LoopSkip
    \/ MkTemp
    \/ Evaluate
    \/ EvaluateFails
    \/ WriteRow
    \/ Flush
    \/ RmTree
    \/ Close
    \/ Crash

SpecFresh == InitFresh /\ [][NextScore]_vars

\* The helpers of download_and_process.py, each called on its own, and the
\* chain of them process_clip runs.
InitGeom ==
    /\ prog = "geom"
    /\ InitProgram
    /\ call \in Calls
    /\ gpc = Entry(call)
    /\ box = <<>>
    /\ dbox = <<>>
    /\ text = <<>>

NextGeom ==
    \/ Expand
    \/ Denorm
    \/ ToSquare
    \/ SecsToTimestr

SpecGeom == InitGeom /\ [][NextGeom]_vars

\* ------------------------------------------------------------------ claims
IsPrefix(a, b) == Len(a) <= Len(b) /\ SubSeq(b, 1, Len(a)) = a

\* Everything written to the ledger, flushed or not.
Written == Rows(ledger) \o buf

\* Clip ids of the data rows this run wrote.
WrittenThisRun ==
    { Written[i].clip : i \in (Len(fileAtStart) + 1)..Len(Written) } \ {Header.clip}

FlushedThisRun ==
    { Rows(ledger)[i].clip : i \in (Len(fileAtStart) + 1)..Len(Rows(ledger)) }
        \ {Header.clip}

EvaluatedStems == { Stem(evaluated[i]) : i \in 1..Len(evaluated) }

\* C1: a clip whose stem is in the clip column of the ledger when the run
\* starts is never given to the model by that run, and the run writes no row
\* for it.
C1_ResumeSkipsRecorded ==
    \A s \in ClipColumn(fileAtStart) :
        s \notin EvaluatedStems /\ s \notin WrittenThisRun

\* A run finished that found a recorded clip in the directory and scored another.
C1_Witness ==
    /\ prog = "score" /\ lastExit = "finished"
    /\ \E n \in Glob(clipsDir) : Stem(n) \in ClipColumn(fileAtStart)
    /\ evaluated # <<>>

\* C2: the ledger never holds two rows with the same clip id.
C2_NoDuplicateRows ==
    LET rows == Rows(ledger)
    IN  \A i, j \in 2..Len(rows) : i # j => rows[i].clip # rows[j].clip

\* C3: when the model is invoked on a clip, the rows of the clips scored
\* before it are on disk; rows on disk are never removed, whatever ends the
\* run; and a run that completes has invoked the model on every clip that had
\* no row under its id on disk when the run started (so also on the one a
\* crash cut short), and has put a row under that id on disk.
C3_FlushBeforeNext ==
    /\ (prog = "score" /\ spc = "eval") => EvaluatedStems \subseteq ClipColumn(Rows(ledger))
    /\ IsPrefix(fileAtStart, Rows(ledger))
    /\ (prog = "score" /\ lastExit = "finished") =>
          \A n \in Glob(clipsDir) :
              Stem(n) \notin ClipColumn(fileAtStart) =>
                  /\ \E i \in 1..Len(evaluated) : evaluated[i] = n
                  /\ Stem(n) \in FlushedThisRun

\* A run completed after a crashed one that had flushed rows, and scored a
\* clip the crashed run had left without a row.
C3_Witness ==
    /\ prog = "score" /\ run >= 2
    /\ prevExit = "crashed" /\ lastExit = "finished"
    /\ Len(fileAtStart) >= 2
    /\ \E n \in Glob(clipsDir) :
          Stem(n) \notin ClipColumn(fileAtStart) /\ Stem(n) \in FlushedThisRun

\* C4: when a preprocess run is over, every job of its list was processed to
\* an outcome, also when one of them failed.
C4_FailureIsolated ==
    (prog = "crop" /\ mode = "preprocess" /\ cpc = "idle") =>
        \A i \in 1..Len(jobs) : outcome[i] # "none"

\* C5: a file at a dest_path is a complete clip, unless a transcode is
\* writing it right now.
C5_NoPartialOutput ==
    \A d \in DestPaths :
        procFs[d] = "partial" =>
            \E w \in Workers : wpc[w] = "encoding" /\ jobs[wjob[w]].save = d

SecondCropRun ==
    /\ prog = "crop" /\ cpc = "pool" /\ mode = "preprocess"
    /\ last.mode = "preprocess" /\ jobs = last.jobs

AllSkippedSoFar ==
    /\ procFs = last.fs
    /\ \A i \in 1..Len(jobs) : outcome[i] \in {"none", "SKIPPED"}

C7_SkipTouchesNothing ==
    [][\A w \in Workers :
          (/\ prog = "crop" /\ wpc[w] = "check"
           /\ Exists(procFs, jobs[wjob[w]].save)
           /\ wpc'[w] # "check" /\ wjob'[w] = wjob[w])
          => /\ outcome'[wjob[w]] = "SKIPPED"
             /\ Len(resultQ') = Len(resultQ) + 1
             /\ toolCalls' = toolCalls
             /\ procFs' = procFs
             /\ rawFs' = rawFs]_vars

\* process_clip returned SKIPPED for a job whose source file does not exist.
C7_Witness ==
    /\ prog = "crop"
    /\ \E i \in 1..Len(jobs) :
          /\ outcome[i] = "SKIPPED" /\ toolCalls[i] = 0
          /\ jobs[i].raw \notin rawFs
          /\ Exists(procFs, jobs[i].save)

Occ(seq, x) == Cardinality({ i \in 1..Len(seq) : seq[i] = x })

\* C8: over one snapshot of the raw directory, every clip gives one job in
\* exactly one mode: in preprocess when its source is present, in download
\* when it is absent.
C8_ModesPartition ==
    LET crop == prepare_jobs(meta, rawFs, "preprocess")
        acq == prepare_jobs(meta, rawFs, "download")
    IN  /\ Len(crop) + Len(acq) = Len(meta)
        /\ \A c \in 1..Len(meta) :
              LET J == Job(meta[c])
                  n == Cardinality({ k \in 1..Len(meta) : Job(meta[k]) = J })
              IN  IF RawPath(meta[c].vid) \in rawFs
                  THEN Occ(crop, J) = n /\ Occ(acq, J) = 0
                  ELSE Occ(acq, J) = n /\ Occ(crop, J) = 0

\* A run planned its jobs over metadata with a present and an absent source.
C8_Witness ==
    /\ prog = "crop" /\ cpc # "idle" /\ mode \in {"preprocess", "download"}
    /\ jobs # <<>> /\ Len(jobs) < Len(meta)
    /\ \E c \in 1..Len(meta) : RawPath(meta[c].vid) \in rawFs
    /\ \E c \in 1..Len(meta) : RawPath(meta[c].vid) \notin rawFs

\* C9: no two jobs of a job list have the same dest_path.
C9_DistinctDest ==
    (prog = "crop" /\ mode \in {"preprocess", "download"}) =>
        \A i, j \in 1..Len(jobs) : i # j => jobs[i].save # jobs[j].save

\* C10: when a scoring run is left, by the end of the loop or by a failing
\* inference, no temporary directory it made remains.
C10_TmpReleased ==
    (prog = "score" /\ spc = "idle" /\ lastExit \in {"finished", "failed"}) =>
        \A t \in tmpDirs : t[1] # run

\* Clip ids of the data rows this run put on disk, in file order.
DataRowsThisRun ==
    LET rows == Rows(ledger)
        from == Max(Len(fileAtStart), 1)
    IN  [i \in 1..(Len(rows) - from) |-> rows[from + i].clip]

\* The header first and once, then only rows of clips of the directory; the
\* rows this run added are those of the clips it scored, in that order.
LedgerShape(rows) ==
    /\ rows[1].clip = Header.clip
    /\ \A i \in 2..Len(rows) :
          /\ rows[i].clip # Header.clip
          /\ \E n \in Glob(clipsDir) : rows[i].clip = Stem(n)
    /\ Len(DataRowsThisRun) \in {Len(evaluated) - 1, Len(evaluated)}
    /\ \A i \in 1..Len(DataRowsThisRun) : DataRowsThisRun[i] = Stem(evaluated[i])

\* C11 as stated: after a run, however it ended, the ledger is the header
\* followed by one row per scored clip, and what was there before the run is
\* a prefix of it.
C11_Original ==
    (prog = "score" /\ run >= 1 /\ spc = "idle") =>
        /\ Rows(ledger) # <<>>
        /\ LedgerShape(Rows(ledger))
        /\ IsPrefix(fileAtStart, Rows(ledger))

\* C11 amended: the ledger is absent or empty, or it is the header followed by
\* one row per scored clip; what was there before a run is a prefix of what
\* is there during and after it.
C11_HeaderThenRows ==
    /\ Rows(ledger) # <<>> => LedgerShape(Rows(ledger))
    /\ IsPrefix(fileAtStart, Rows(ledger))

\* A second run, after a crashed one, has added a row to the rows of the first.
C11_Witness ==
    /\ run >= 2 /\ prevExit = "crashed" /\ lastExit = "finished"
    /\ Len(fileAtStart) >= 2
    /\ Len(Rows(ledger)) > Len(fileAtStart)

\* C12: a failing inference ends the run at that clip: the rows the run put on
\* disk are those of the clips scored before it, none for it or any later
\* clip, and the rows that were on disk before are still there.
C12_InferenceFailureStops ==
    (prog = "score" /\ lastExit = "failed") =>
        /\ spc = "idle" /\ buf = <<>>
        /\ IsPrefix(fileAtStart, Rows(ledger))
        /\ DataRowsThisRun =
              [i \in 1..(Len(evaluated) - 1) |-> Stem(evaluated[i])]

\* The inference failed on the second clip the run scored, with clips left to
\* visit and rows of an earlier run on disk.
C12_Witness ==
    /\ prog = "score" /\ lastExit = "failed"
    /\ Len(evaluated) >= 2 /\ idx < Len(clips)
    /\ Len(fileAtStart) >= 2

\* C13: in a download run the fetch of a source video is attempted at most
\* once, also when it failed and several clips refer to the same source.
C13_FetchAtMostOnce ==
    (prog = "crop" /\ mode = "download") =>
        \A r \in RawPaths : fetches[r] <= 1

\* A step of the pool of a run: of a worker, or of the loop over the results.
PoolStep ==
    \/ \E w \in Workers : Dispatch(w)
    \/ \E w \in Workers : ClipSkipped(w)
    \/ \E w \in Workers : Probe(w)
    \/ \E w \in Workers : ProbeFails(w)
    \/ \E w \in Workers : FfmpegOpens(w)
    \/ \E w \in Workers : FfmpegRefuses(w)
    \/ \E w \in Workers : FfmpegDone(w)
    \/ \E w \in Workers : FfmpegFails(w)
    \/ Yield
    \/ Raise
    \/ PoolFinish

\* Steps a job held by a worker at position pc is away from its result.
Rank(pc) ==
    CASE pc = "check" -> 4
      [] pc = "ffmpeg" -> 3
      [] pc = "encoding" -> 2
      [] OTHER -> 0

RECURSIVE SumRank(_, _)
SumRank(wp, n) == IF n = 0 THEN 0 ELSE Rank(wp[n]) + SumRank(wp, n - 1)

\* Steps left before every outcome is yielded: it bounds the length of a run.
WorkLeft(js, nj, wp, q) ==
    5 * (Len(js) + 1 - nj) + SumRank(wp, NumWorkers) + Len(q)

\* A preprocess run is inside `with Pool`.
PoolRunning == prog = "crop" /\ mode = "preprocess" /\ cpc = "pool"

\* No job is handed out twice or held by two workers, the pool is never
\* stuck, and a run that finished has one good outcome per job.
C14_State ==
    (prog = "crop" /\ mode = "preprocess") =>
        /\ \A j \in 1..Len(jobs) : taken[j] <= 1
        /\ \A v, w \in Workers :
              (v # w /\ wpc[v] # "idle" /\ wpc[w] # "idle") => wjob[v] # wjob[w]
        /\ yielded <= Len(jobs)
        /\ PoolRunning => ENABLED PoolStep
        /\ (cpc = "idle" /\ lastExit = "finished") =>
              /\ yielded = Len(jobs)
              /\ \A j \in 1..Len(jobs) :
                    taken[j] = 1 /\ outcome[j] \in {"SKIPPED", "DONE"}

\* Every step of a running pool lowers WorkLeft.
C14_Step ==
    (PoolRunning /\ PoolRunning') =>
        /\ WorkLeft(jobs', nextJob', wpc', resultQ') <
              WorkLeft(jobs, nextJob, wpc, resultQ)
        /\ WorkLeft(jobs', nextJob', wpc', resultQ') >= 0

\* C14: in a preprocess run every job is handed out once, to one worker; the
\* pool can always take a step and each step brings the end closer; a run
\* that ends without a failure has yielded len(jobs) outcomes, one per job.
C14_EachJobOnce == []C14_State /\ [][C14_Step]_vars

\* A run without a failure over two jobs has ended, each worker having held
\* one of them.
C14_Witness ==
    /\ prog = "crop" /\ mode = "preprocess"
    /\ cpc = "idle" /\ lastExit = "finished"
    /\ Len(jobs) >= 2 /\ yielded = Len(jobs)
    /\ wjob[1] # 0 /\ wjob[2] # 0 /\ wjob[1] # wjob[2]

\* C15 as stated: the rows one run appends are in strictly increasing order
\* of clip id. (It fails over stems that all differ too: a.4.mp4 is visited
\* before a.mp4.)
C15_Original ==
    (prog = "score" /\ run >= 1) =>
        \A i, j \in 1..Len(DataRowsThisRun) :
            i < j => LexLess(DataRowsThisRun[i], DataRowsThisRun[j])

\* C15 amended: the clips are visited in strictly increasing order of file
\* name, the rows of a run follow the order of the visits, and a run that
\* found no row in the ledger visits the i-th smallest name i-th, so its row
\* order depends on the directory alone.
C15_NameOrder ==
    (prog = "score" /\ run >= 1) =>
        /\ \A i, j \in 1..Len(evaluated) :
              i < j => LexLess(evaluated[i], evaluated[j])
        /\ \A i \in 1..Len(DataRowsThisRun) :
              i <= Len(evaluated) /\ DataRowsThisRun[i] = Stem(evaluated[i])
        /\ done = {} =>
              \A i \in 1..Len(evaluated) :
                  /\ evaluated[i] \in Glob(clipsDir)
                  /\ Cardinality({ n \in Glob(clipsDir) :
                                     LexLess(n, evaluated[i]) }) = i - 1

\* Two rows of one run are on disk, of clips with different ids, the larger
\* id first.
C15_Witness ==
    /\ prog = "score" /\ done = {}
    /\ Len(DataRowsThisRun) >= 2
    /\ LexLess(DataRowsThisRun[2], DataRowsThisRun[1])

Returned(f) == prog = "geom" /\ call.f = f /\ gpc = "return"

\* C17: for a box with top <= bottom and left <= right, to_square returns a
\* region whose two spans both equal the shorter span of the box and whose
\* two midpoints are those of the box (box is in half pixels).
C17_SquareKeepsMidpoints ==
    Returned("to_square") =>
        LET b == call.bbox
            side == Min(b[2] - b[1], b[4] - b[3])
        IN  /\ box[2] - box[1] = 2 * side
            /\ box[4] - box[3] = 2 * side
            /\ box[1] + box[2] = 2 * (b[1] + b[2])
            /\ box[3] + box[4] = 2 * (b[3] + b[4])

\* to_square has returned for a box higher than wide, of odd width.
C17_Witness ==
    /\ Returned("to_square")
    /\ call.bbox[2] - call.bbox[1] = 3
    /\ call.bbox[4] - call.bbox[3] = 1
    /\ box[2] - box[1] = 2

\* C18: for a bbox in [0,1]^4 and a ratio >= 0, expand returns four sides in
\* [0,1], top and left lowered by ratio but not below 0, bottom and right
\* raised by ratio but not above 1; with ratio 0 it returns the bbox.
C18_ExpandClamps ==
    Returned("expand") =>
        LET b == call.bbox
            r == call.ratio
        IN  /\ \A i \in 1..4 : 0 <= box[i] /\ box[i] <= Grid
            /\ \A i \in {1, 3} :
                  box[i] = IF b[i] - r >= 0 THEN b[i] - r ELSE 0
            /\ \A i \in {2, 4} :
                  box[i] = IF b[i] + r <= Grid THEN b[i] + r ELSE Grid
            /\ r = 0 => box = b

\* expand has returned with top clamped at 0 and bottom moved by the whole
\* ratio.
C18_Witness ==
    /\ Returned("expand")
    /\ call.ratio > 0
    /\ call.bbox[1] > 0 /\ box[1] = 0
    /\ box[2] = call.bbox[2] + call.ratio /\ box[2] < Grid

\* Hours, minutes, seconds and hundredths of a time in eighths of a second,
\* the hundredths truncated.
Fields(secs) ==
    <<secs \div (3600 * PerSec),
      (secs \div (60 * PerSec)) % 60,
      (secs \div PerSec) % 60,
      ((secs % PerSec) * 100) \div PerSec>>

TwoDigits(n) == <<DigitChar(n \div 10), DigitChar(n % 10)>>

HHMMSScc(secs) ==
    TwoDigits(Fields(secs)[1]) \o <<":">> \o TwoDigits(Fields(secs)[2])
        \o <<":">> \o TwoDigits(Fields(secs)[3]) \o <<".">>
        \o TwoDigits(Fields(secs)[4])

\* What the claim gives for 3661.5 and for 0.
Examples ==
    /\ call.secs = 29292 =>
          text = <<"0", "1", ":", "0", "1", ":", "0", "1", ".", "5", "0">>
    /\ call.secs = 0 =>
          text = <<"0", "0", ":", "0", "0", ":", "0", "0", ".", "0", "0">>

\* C19 as stated: every non-negative time is formatted as four two-digit
\* fields.
C19_Original ==
    Returned("secs_to_timestr") =>
        /\ Len(text) = 11
        /\ Fields(call.secs)[1] < 100 /\ text = HHMMSScc(call.secs)
        /\ Examples

\* C19 amended: a time from 0 up to, not including, 100 hours is formatted as
\* HH:MM:SS.cc, four zero-padded two-digit fields, the hundredths truncated;
\* 3661.5 gives "01:01:01.50" and 0 gives "00:00:00.00".
C19_TwoDigitFieldsBelow100h ==
    (Returned("secs_to_timestr") /\ call.secs < 360000 * PerSec) =>
        /\ Len(text) = 11
        /\ text = HHMMSScc(call.secs)
        /\ Examples

\* 59.875 s has been formatted: the hundredths are 87, not 88.
C19_Witness ==
    /\ Returned("secs_to_timestr")
    /\ call.secs = 479
    /\ text = <<"0", "0", ":", "0", "0", ":", "5", "9", ".", "8", "7">>

\* C20: the crop region process_clip computes, to_square(denorm(expand(bbox,
\* 0.02), height, width)), is inside the frame and inside the denormalized
\* expanded box (box is in half pixels).
C20_CropInsideFrame ==
    Returned("process_clip") =>
        /\ 0 <= box[1] /\ box[1] <= box[2] /\ box[2] <= 2 * call.height
        /\ 0 <= box[3] /\ box[3] <= box[4] /\ box[4] <= 2 * call.width
        /\ 2 * dbox[1] <= box[1] /\ box[2] <= 2 * dbox[2]
        /\ 2 * dbox[3] <= box[3] /\ box[4] <= 2 * dbox[4]

\* The region of a clip has been computed: the denormalized box is higher
\* than wide, the square is strictly inside it, and int() has returned one
\* less than the whole number the exact product is.
C20_Witness ==
    /\ Returned("process_clip")
    /\ dbox[4] - dbox[3] >= 1
    /\ dbox[2] - dbox[1] > dbox[4] - dbox[3]
    /\ 2 * dbox[1] < box[1] /\ box[2] < 2 * dbox[2]
    /\ (dbox[2] + 1) * Grid = Min(call.bbox[2] + ExpandRatio, Grid) * call.height

====
